---- MODULE Spec2Model ----
(***************************************************************************)
(* Model of the SAM -> XP12 jetway converter scripts sam_2_xp12.py and     *)
(* sam_2_native.py.  Both scripts are one batch run: load sam.xml, decode  *)
(* and parse every tile (.dsf), match SAM definitions against the tile     *)
(* objects, erase/renumber the matched objects and add rotundas, rewrite   *)
(* apt.dat, create the marker file.  The variable "variant" says which of  *)
(* the two scripts runs.                                                   *)
(*                                                                         *)
(* Units: positions are local flat-earth offsets in centimetres            *)
(* (lat = deg_2_m * latitude, lon = deg_2_m * cos(lat) * longitude),       *)
(* so ObjPos.distance is the euclidean distance of two points; distances   *)
(* are compared squared.  cabinPos, height are in decimetres.  Headings    *)
(* are whole degrees.                                                      *)
(***************************************************************************)
EXTENDS Integers, Sequences, FiniteSets, TLC

VARIABLES
    variant,                \* "xp12" (sam_2_xp12.py) or "native" (sam_2_native.py)
    remove_sam_lib_objects, \* option -remove_sam_lib_objects
    pc,                     \* position of main
    n_files,                \* number of .dsf files os.walk finds
    sam_xml,                \* the jetway elements read from sam.xml
    jetways,                \* sam.jetways
    docks,                  \* sam.docks
    dsf_txt,                \* per tile: the text DSFTool decoded (input snapshot)
    dsf_list,               \* the Dsf objects
    i,                      \* index of the tile loop that is running
    k,                      \* index of the jetway loop inside filter_sam
    n_dsf_jw,
    n_dsf_docks,
    dsf_out,                \* per tile: the text written by Dsf.write, <<>> if none
    apt_lines,              \* lines read from the backup apt.dat
    apt_out,                \* lines written to apt.dat
    use_autodgs,            \* marker file "Earth nav data/use_autodgs" exists
    exit_code               \* 0 while running / after 'done!', else the exit status

vars == <<variant, remove_sam_lib_objects, pc, n_files, sam_xml, jetways, docks, dsf_txt,
          dsf_list, i, k, n_dsf_jw, n_dsf_docks, dsf_out, apt_lines, apt_out,
          use_autodgs, exit_code>>

\* Python's None / a missing attribute, per type of the value
NoRef == <<>>           \* SAM_jw.obj_ref = None
NoJw == 0               \* ObjectRef.sam_jw = None
Unset == 0 - 9          \* an attribute that was never assigned (a number)

(***************************************************************************)
(* Bounds of the inputs.                                                   *)
(***************************************************************************)
MaxJw == 2          \* jetway elements in sam.xml (runs over several tiles)
MaxDefs == 2        \* OBJECT_DEF records of a tile (runs over a single tile)
MaxPoly == 2        \* POLYGON_DEF records of a decoded tile

(***************************************************************************)
(* Program constants.                                                      *)
(***************************************************************************)
jw_match_radius == 50           \* 0.5 m
dock_radius == 100              \* 1 m
native_jw_radius == 50          \* 0.5 m
native_jw_hdg_tol == 1          \* 1 degree
min_height == 35                \* 3.5 m
max_height == 60                \* 6.0 m
jw_rotunda_length == 100        \* 1.0 m
native_rotunda_len == 150       \* 1.5 m

Variants == {"xp12", "native"}

(***************************************************************************)
(* Geometry.                                                               *)
(***************************************************************************)
Pt(la, lo) == [lat |-> la, lon |-> lo]

\* ObjPos.distance, squared (cm^2).  Every SAM_jw, SAM_dock and ObjectRef sets
\* lat and lon in its constructor, so the "filter" branch (lat is None) is dead.
distance(a, b) ==
    (a.lat - b.lat) * (a.lat - b.lat) + (a.lon - b.lon) * (a.lon - b.lon)

\* d < r for a squared distance d2 and a radius r >= 0
Below(d2, r) == d2 < r * r

Abs(x) == IF x < 0 THEN 0 - x ELSE x

\* cos / sin of the headings the model uses (multiples of 90 degrees)
Cos(h) == CASE h % 360 = 0 -> 1 [] h % 360 = 180 -> 0 - 1 [] OTHER -> 0
Sin(h) == CASE h % 360 = 90 -> 1 [] h % 360 = 270 -> 0 - 1 [] OTHER -> 0

pos_plus_vec(p, dist, hdg) == Pt(p.lat + dist * Cos(hdg), p.lon + dist * Sin(hdg))

\* math.fmod keeps the sign of hdg
normalize_hdg(hdg) ==
    LET m == IF hdg >= 0 THEN hdg % 360 ELSE 0 - ((0 - hdg) % 360)
    IN  IF m < 0 THEN m + 360 ELSE m

(***************************************************************************)
(* SAM definitions (sam.xml).                                              *)
(***************************************************************************)
\* faulty variant: "elif", the first range that contains the length wins
lcode_of_mut(length) ==
    IF length >= 110 /\ length <= 230 THEN 0
    ELSE IF length >= 140 /\ length <= 290 THEN 1
    ELSE IF length >= 170 /\ length <= 380 THEN 2
    ELSE IF length >= 200 /\ length <= 470 THEN 3
    ELSE 0 - 1

\* the tunnel length code of a cabinPos value (decimetres)
lcode_of(length) ==
    LET c0 == IF length >= 110 /\ length <= 230 THEN 0 ELSE 0 - 1
        c1 == IF length >= 140 /\ length <= 290 THEN 1 ELSE c0
        c2 == IF length >= 170 /\ length <= 380 THEN 2 ELSE c1
        c3 == IF length >= 200 /\ length <= 470 THEN 3 ELSE c2
    IN  c3

\* SAM_jw.__init__ of the element number n of sam.xml
SAM_jw(n, attrib) ==
    [name     |-> n,
     pos      |-> attrib.pos,
     hdg      |-> attrib.hdg,
     height   |-> attrib.height,
     length   |-> attrib.cabinPos,
     jw_hdg   |-> IF variant = "xp12" THEN attrib.hdg + attrib.initialRot1
                  ELSE attrib.initialRot1,
     cab_hdg  |-> attrib.initialRot2,
     lcode    |-> IF variant = "xp12" THEN lcode_of(attrib.cabinPos) ELSE Unset,
     obj_ref  |-> NoRef,
     obj_hdg  |-> Unset]

SAM_dock(attrib) == [pos |-> attrib.pos, hdg |-> normalize_hdg(90 + attrib.hdg)]

\* the jetway elements that SAM.__init__ keeps
Usable(jw) ==
    variant = "xp12" =>
        /\ min_height <= jw.height /\ jw.height <= max_height
        /\ jw.lcode >= 0

RECURSIVE LoadJetways(_, _)
LoadJetways(xml, n) ==
    IF n > Len(xml) THEN <<>>
    ELSE LET jw == SAM_jw(n, xml[n])
         IN  (IF Usable(jw) THEN <<jw>> ELSE <<>>) \o LoadJetways(xml, n + 1)

n_sam_jw == Len(jetways)
n_sam_docks == Len(docks)

(***************************************************************************)
(* Input universes.                                                        *)
(***************************************************************************)
P0 == Pt(0, 0)
P50 == Pt(30, 40)       \* exactly 0.5 m from P0
P99 == Pt(99, 0)        \* 0.99 m from P0
P101 == Pt(101, 0)      \* 1.01 m from P0

JwAttrib(p, h, l) ==
    [pos |-> p, hdg |-> 0, height |-> h, cabinPos |-> l, initialRot1 |-> 0,
     initialRot2 |-> 10]

JwAttribs ==
    {JwAttrib(P0, 40, 150), JwAttrib(P99, 40, 150), JwAttrib(P0, 30, 150),
     JwAttrib(P0, 40, 100)}

DockAttribs == {[pos |-> P0, hdg |-> 0]}

SeqsUpTo(S, n) == UNION {[1..m -> S] : m \in 0..n}

\* sam.xml of a run over several tiles / over a single tile / with one jetway
\* of any cabinPos between 10 m and 48 m
SamXmls == SeqsUpTo(JwAttribs, MaxJw)
TileSamXmls == SeqsUpTo({JwAttrib(P0, 40, 150), JwAttrib(P99, 40, 150)}, 2)
LengthSamXmls == {<<JwAttrib(P0, 40, l)>> : l \in 100..480}
DockXmls == SeqsUpTo(DockAttribs, 1)

(***************************************************************************)
(* main: sam = SAM()                                                       *)
(***************************************************************************)
SAM_init(Xmls) ==
    /\ pc = "sam"
    /\ \E xml \in Xmls, dxml \in DockXmls :
          /\ sam_xml' = xml
          /\ jetways' = LoadJetways(xml, 1)
          /\ docks' = [n \in 1..Len(dxml) |-> SAM_dock(dxml[n])]
    /\ pc' = IF n_files > 0 THEN "parse" ELSE "filter"
    /\ i' = 1
    /\ UNCHANGED <<variant, remove_sam_lib_objects, n_files, dsf_txt, dsf_list, k,
                   n_dsf_jw, n_dsf_docks, dsf_out, apt_lines, apt_out, use_autodgs,
                   exit_code>>

(***************************************************************************)
(* Tiles: the text DSFTool decodes.  defs are the OBJECT_DEF names in      *)
(* file order, refs the OBJECT / OBJECT_AGL records in file order (id is   *)
(* the 0-based index of the OBJECT_DEF; height, decimetres, is the height  *)
(* word of a height-qualified record; gap is the number of blanks between  *)
(* two words of the parameter text), npoly the number of POLYGON_DEF       *)
(* records, polys the indices of the BEGIN_POLYGON records in file order.  *)
(***************************************************************************)
Names == {"plain.obj", "samjw.obj", "SAM_Library/x.obj"}

\* the file of this name exists and contains "sam/jetway/rotate1"
ObjFileHasSamDataref(name) == name = "samjw.obj"

\* name.find("SAM_Library") >= 0 or name.find("SAM3_Library") >= 0
IsSamLibName(name) == name = "SAM_Library/x.obj"

RefTemplate(type, pos, hdg, height, gap) ==
    [type |-> type, pos |-> pos, hdg |-> hdg, height |-> height, gap |-> gap]

RefTemplates ==
    {RefTemplate("OBJECT", P0, 0, 0, 1),
     RefTemplate("OBJECT", P0, 90, 0, 1),
     RefTemplate("OBJECT", P50, 0, 0, 1),
     RefTemplate("OBJECT", P99, 0, 0, 1),
     RefTemplate("OBJECT", P101, 0, 0, 1),
     RefTemplate("OBJECT_AGL", P0, 0, 0, 1)}

RefLines(T, nd) ==
    {[type |-> t.type, id |-> id, pos |-> t.pos, hdg |-> t.hdg, height |-> t.height,
      gap |-> t.gap] :
        t \in T, id \in 0..(nd - 1)}

TileTexts(T, maxDefs, maxRefs) ==
    UNION {{[defs |-> d, refs |-> r, npoly |-> 0, polys |-> <<>>] :
               r \in SeqsUpTo(RefLines(T, Len(d)), maxRefs)} :
           d \in SeqsUpTo(Names, maxDefs)}

LeanRefTemplates ==
    {RefTemplate("OBJECT", P0, 0, 0, 1),
     RefTemplate("OBJECT", P0, 90, 0, 1),
     RefTemplate("OBJECT", P99, 0, 0, 1)}

\* tiles of a run over a single tile / over several tiles
RichTiles == TileTexts(RefTemplates, MaxDefs, 2)
LeanTiles == TileTexts(LeanRefTemplates, 1, 1)

\* plain and height-qualified records, with heights below, at and above zero
\* and with one or two blanks between the words
HeightRefTemplates ==
    {RefTemplate("OBJECT", P0, 0, 0, 1),
     RefTemplate("OBJECT", P99, 90, 0, 2),
     RefTemplate("OBJECT_AGL", P99, 0, 0 - 5, 2),
     RefTemplate("OBJECT_AGL", P0, 90, 7, 2),
     RefTemplate("OBJECT_MSL", P99, 0, 0 - 1, 1),
     RefTemplate("OBJECT_MSL", P0, 0, 0, 1)}

\* tiles with one or two definitions of plain objects, up to two such records,
\* up to MaxPoly polygon definitions and up to one polygon that uses one
TextTiles ==
    UNION {UNION {{[defs |-> d, refs |-> r, npoly |-> n, polys |-> ps] :
                      r \in SeqsUpTo(RefLines(HeightRefTemplates, Len(d)), 2),
                      ps \in SeqsUpTo(0..(n - 1), 1)} :
                  n \in 0..MaxPoly} :
           d \in {<<"plain.obj">>, <<"plain.obj", "plain.obj">>}}

\* sam.xml of the runs over such a tile
TextSamXmls == SeqsUpTo({JwAttrib(P0, 40, 150)}, 1)

ObjectDef(id, name) ==
    [id |-> id, name |-> name, sam_checked |-> FALSE, sam_jw |-> FALSE,
     is_jetway |-> FALSE, is_dock |-> FALSE]

\* the parameter text of an OBJECT* line: its words, lon lat [height] hdg, and
\* the number of blanks between two words
Words(line) ==
    IF line.type = "OBJECT" THEN <<line.pos.lon, line.pos.lat, line.hdg>>
    ELSE <<line.pos.lon, line.pos.lat, line.height, line.hdg>>

Params(line) == [words |-> Words(line), gap |-> line.gap]

\* " ".join(words)
Join(words) == [words |-> words, gap |-> 1]

\* faulty variant: the test "height < 0" is missing, the text is kept
ObjectRef_params_mut(line) ==
    IF variant = "native" THEN Join(<<line.pos.lon, line.pos.lat, line.hdg>>)
    ELSE Params(line)

\* ObjectRef.params: xp12 keeps the text, but for a height-qualified record
\* with a negative height the text is joined again from the words with the
\* height word "0.0"; native keeps the numbers lon, lat, hdg only and prints
\* them with one blank
ObjectRef_params(line) ==
    IF variant = "native" THEN Join(<<line.pos.lon, line.pos.lat, line.hdg>>)
    ELSE IF line.type # "OBJECT" /\ line.height < 0
         THEN Join([Words(line) EXCEPT ![3] = 0])
         ELSE Params(line)

\* obj is the position of the referenced ObjectDef in object_defs (xp12 keeps
\* the object, native keeps the number id)
ObjectRef(line) ==
    [type |-> line.type, obj |-> line.id + 1, id |-> line.id, pos |-> line.pos,
     hdg |-> line.hdg, params |-> ObjectRef_params(line), sam_jw |-> NoJw,
     is_jetway |-> FALSE, is_dock |-> FALSE]

\* the OBJECT* lines that become ObjectRef objects; native parses only OBJECT
IsParsedRef(line) == variant = "xp12" \/ line.type = "OBJECT"

\* Dsf.__init__ (xp12) / Dsf.__init__ + Dsf.parse (native) on the decoded text
Dsf(txt) ==
    [object_defs  |-> [n \in 1..Len(txt.defs) |-> ObjectDef(n - 1, txt.defs[n])],
     object_refs  |-> LET ls == SelectSeq(txt.refs, IsParsedRef)
                      IN  [n \in 1..Len(ls) |-> ObjectRef(ls[n])],
     rest         |-> SelectSeq(txt.refs, LAMBDA l : ~IsParsedRef(l)),
     jw_facade_id |-> txt.npoly,
     polygon_defs |-> txt.npoly,
     polygon_refs |-> txt.polys,
     rotundas     |-> <<>>,
     n_jw         |-> 0,
     n_docks      |-> 0]

\* faulty variant: the return code is logged only, main leaves the tile loop
\* and goes on with apt.dat
ToolFails_mut ==
    /\ pc' = "apt"
    /\ exit_code' = exit_code

\* run_cmd: DSFTool returns a non-zero code, sys.exit(2)
ToolFails ==
    /\ pc' = "exit"
    /\ exit_code' = 2

\* main: dsf_list.append(Dsf(full_name)) for the next file of os.walk
Dsf_init(Tiles) ==
    /\ pc = "parse"
    /\ \/ /\ ToolFails
          /\ UNCHANGED <<dsf_txt, dsf_list, i>>
       \/ /\ \E txt \in Tiles :
                /\ dsf_txt' = Append(dsf_txt, txt)
                /\ dsf_list' = Append(dsf_list, Dsf(txt))
          /\ i' = IF i = n_files THEN 1 ELSE i + 1
          /\ pc' = IF i = n_files THEN "filter" ELSE "parse"
          /\ UNCHANGED exit_code
    /\ UNCHANGED <<variant, remove_sam_lib_objects, n_files, sam_xml, jetways, docks,
                   k, n_dsf_jw, n_dsf_docks, dsf_out, apt_lines, apt_out, use_autodgs>>

(***************************************************************************)
(* Matching: Dsf.filter_sam                                                *)
(***************************************************************************)
Min(S) == CHOOSE x \in S : \A y \in S : x <= y
Max(S) == CHOOSE x \in S : \A y \in S : x >= y

\* the positions in object_refs of the candidates of a jetway, by proximity
Candidates(dsf, jw) ==
    {r \in 1..Len(dsf.object_refs) :
        Below(distance(jw.pos, dsf.object_refs[r].pos), jw_match_radius)}

\* the candidates whose ObjectDef.is_sam_jw() is true
SamCandidates(dsf, jw) ==
    {r \in Candidates(dsf, jw) :
        ObjFileHasSamDataref(dsf.object_defs[dsf.object_refs[r].obj].name)}

\* the candidates that the loop "check if one of these is a SAM jetway" visits
Visited(dsf, jw) ==
    IF SamCandidates(dsf, jw) = {} THEN Candidates(dsf, jw)
    ELSE {r \in Candidates(dsf, jw) : r <= Min(SamCandidates(dsf, jw))}

\* faulty variant: the "break" after the first SAM jetway candidate is missing
Marked_mut(dsf, jw) ==
    IF SamCandidates(dsf, jw) = {} THEN Candidates(dsf, jw)
    ELSE SamCandidates(dsf, jw)

\* the references that get linked to the jetway
Marked(dsf, jw) ==
    IF SamCandidates(dsf, jw) = {} THEN Candidates(dsf, jw)
    ELSE {Min(SamCandidates(dsf, jw))}

\* the ObjectDef that "obj.is_jetway = True" flags for the marked reference r:
\* with a SAM jetway candidate obj is its ObjectDef, in the loop "mark all"
\* obj is still the ObjectDef of the last candidate visited
FlaggedObj(dsf, jw, r) ==
    IF SamCandidates(dsf, jw) = {} THEN dsf.object_refs[Max(Candidates(dsf, jw))].obj
    ELSE dsf.object_refs[r].obj

\* faulty variant: a jetway that is linked already keeps its link
NewObjRef_mut(jw, t, mrk) ==
    IF mrk = {} \/ jw.obj_ref # NoRef THEN jw.obj_ref ELSE <<t, Max(mrk)>>

\* jw.obj_ref after the pass: "jw.obj_ref = o_r" for every marked reference of
\* tile t in turn
NewObjRef(jw, t, mrk) ==
    IF mrk = {} THEN jw.obj_ref ELSE <<t, Max(mrk)>>

\* one pass of the loop "for jw in sam.jetways" of filter_sam on a tile
filter_jw(dsf, jwno) ==
    LET jw == jetways[jwno]
        vis == {dsf.object_refs[r].obj : r \in Visited(dsf, jw)}
        mrk == Marked(dsf, jw)
        flg == {FlaggedObj(dsf, jw, r) : r \in mrk}
    IN  [dsf EXCEPT
            !.object_defs = [n \in 1..Len(dsf.object_defs) |->
                [dsf.object_defs[n] EXCEPT
                    !.sam_checked = @ \/ n \in vis,
                    !.sam_jw = @ \/ (n \in vis /\ ~dsf.object_defs[n].sam_checked
                                       /\ ObjFileHasSamDataref(dsf.object_defs[n].name)),
                    !.is_jetway = @ \/ n \in flg]],
            !.object_refs = [r \in 1..Len(dsf.object_refs) |->
                IF r \in mrk THEN [dsf.object_refs[r] EXCEPT !.sam_jw = jwno]
                ELSE dsf.object_refs[r]],
            !.n_jw = @ + Cardinality(mrk)]

\* SAM.match_docks
match_docks(obj_ref) ==
    \E d \in 1..Len(docks) : Below(distance(docks[d].pos, obj_ref.pos), dock_radius)

\* the loop "finding docks is simpler" of filter_sam (xp12)
filter_docks(dsf) ==
    LET hit == {r \in 1..Len(dsf.object_refs) : match_docks(dsf.object_refs[r])}
    IN  [dsf EXCEPT
            !.object_defs = [n \in 1..Len(dsf.object_defs) |->
                [dsf.object_defs[n] EXCEPT
                    !.is_dock = @ \/ \E r \in hit : dsf.object_refs[r].obj = n]],
            !.object_refs = [r \in 1..Len(dsf.object_refs) |->
                [dsf.object_refs[r] EXCEPT !.is_dock = @ \/ r \in hit]],
            !.n_docks = @ + Cardinality(hit)]

\* faulty variant: the matching loop ends after the first tile
Tally_mut(dsf) ==
    /\ n_dsf_jw' = IF dsf.n_jw > 0 THEN n_dsf_jw + dsf.n_jw ELSE n_dsf_jw
    /\ n_dsf_docks' = IF dsf.n_docks > 0 THEN n_dsf_docks + dsf.n_docks ELSE n_dsf_docks
    /\ i' = 1
    /\ pc' = "check"

\* main: the part of the matching loop after dsf.filter_sam(sam)
Tally(dsf) ==
    /\ n_dsf_jw' = IF dsf.n_jw > 0 THEN n_dsf_jw + dsf.n_jw ELSE n_dsf_jw
    /\ n_dsf_docks' = IF dsf.n_docks > 0 THEN n_dsf_docks + dsf.n_docks ELSE n_dsf_docks
    /\ i' = IF i >= n_files THEN 1 ELSE i + 1
    /\ pc' = IF i >= n_files THEN "check" ELSE "filter"

\* xp12, filter_sam of tile i: the jetway number k
filter_sam_jw ==
    /\ pc = "filter" /\ variant = "xp12"
    /\ i <= n_files /\ k <= Len(jetways)
    /\ LET jw == jetways[k]
           mrk == Marked(dsf_list[i], jw)
       IN  /\ dsf_list' = [dsf_list EXCEPT ![i] = filter_jw(@, k)]
           /\ jetways' = [jetways EXCEPT ![k].obj_ref = NewObjRef(jw, i, mrk)]
    /\ k' = k + 1
    /\ UNCHANGED <<variant, remove_sam_lib_objects, pc, n_files, sam_xml, docks, dsf_txt,
                   i, n_dsf_jw, n_dsf_docks, dsf_out, apt_lines, apt_out,
                   use_autodgs, exit_code>>

\* xp12, filter_sam of tile i: the docks, and the tally of main
filter_sam_docks ==
    /\ pc = "filter" /\ variant = "xp12"
    /\ i <= n_files /\ k > Len(jetways)
    /\ dsf_list' = [dsf_list EXCEPT ![i] = filter_docks(@)]
    /\ Tally(dsf_list'[i])
    /\ k' = 1
    /\ UNCHANGED <<variant, remove_sam_lib_objects, n_files, sam_xml, jetways, docks,
                   dsf_txt, dsf_out, apt_lines, apt_out, use_autodgs, exit_code>>

\* SAM.match_jetways (native): the first jetway close to the object, or 0
match_jetways(jws, obj_ref) ==
    LET hit == {j \in 1..Len(jws) :
                   /\ Below(distance(jws[j].pos, obj_ref.pos), native_jw_radius)
                   /\ Abs(jws[j].hdg - obj_ref.hdg) < native_jw_hdg_tol}
    IN  IF hit = {} THEN 0 ELSE Min(hit)

\* native filter_sam from the reference number r on; st = [dsf, jws]
RECURSIVE filter_native(_, _)
filter_native(st, r) ==
    IF r > Len(st.dsf.object_refs) THEN st
    ELSE LET o == st.dsf.object_refs[r]
             j == match_jetways(st.jws, o)
         IN  IF j > 0
             THEN filter_native(
                    [dsf |-> [st.dsf EXCEPT !.object_refs[r].is_jetway = TRUE,
                                            !.object_defs[o.id + 1].is_jetway = TRUE,
                                            !.n_jw = @ + 1],
                     jws |-> [st.jws EXCEPT ![j].obj_hdg = o.hdg]], r + 1)
             ELSE IF match_docks(o)
             THEN filter_native(
                    [dsf |-> [st.dsf EXCEPT !.object_refs[r].is_dock = TRUE,
                                            !.object_defs[o.id + 1].is_dock = TRUE,
                                            !.n_docks = @ + 1],
                     jws |-> st.jws], r + 1)
             ELSE filter_native(st, r + 1)

\* native, filter_sam of tile i and the tally of main
filter_sam_native ==
    /\ pc = "filter" /\ variant = "native"
    /\ i <= n_files
    /\ LET st == filter_native([dsf |-> dsf_list[i], jws |-> jetways], 1)
       IN  /\ dsf_list' = [dsf_list EXCEPT ![i] = st.dsf]
           /\ jetways' = st.jws
           /\ Tally(st.dsf)
    /\ UNCHANGED <<variant, remove_sam_lib_objects, n_files, sam_xml, docks, dsf_txt, k,
                   dsf_out, apt_lines, apt_out, use_autodgs, exit_code>>

\* main with no tile at all: the matching loop does nothing
filter_none ==
    /\ pc = "filter" /\ n_files = 0
    /\ pc' = "check"
    /\ UNCHANGED <<variant, remove_sam_lib_objects, n_files, sam_xml, jetways, docks,
                   dsf_txt, dsf_list, i, k, n_dsf_jw, n_dsf_docks, dsf_out, apt_lines,
                   apt_out, use_autodgs, exit_code>>

(***************************************************************************)
(* main: the count check after the matching loop (native only; xp12 only   *)
(* logs the counts)                                                        *)
(***************************************************************************)
count_check ==
    /\ pc = "check"
    /\ IF variant = "native" /\ (n_dsf_jw # n_sam_jw \/ n_dsf_docks # n_sam_docks)
       THEN pc' = "exit" /\ exit_code' = 2
       ELSE pc' = (IF n_files = 0 THEN "apt" ELSE "rewrite") /\ exit_code' = exit_code
    /\ UNCHANGED <<variant, remove_sam_lib_objects, n_files, sam_xml, jetways, docks,
                   dsf_txt, dsf_list, i, k, n_dsf_jw, n_dsf_docks, dsf_out, apt_lines,
                   apt_out, use_autodgs>>

(***************************************************************************)
(* Erasing and renumbering: Dsf.remove_sam                                 *)
(***************************************************************************)
\* the condition under which remove_sam deletes an ObjectDef
IsRemoved(o) ==
    \/ o.is_jetway \/ o.is_dock
    \/ /\ variant = "xp12" /\ remove_sam_lib_objects
       /\ IsSamLibName(o.name)

\* faulty variant: new_id is incremented for a deleted definition as well
RECURSIVE Renumber_mut(_, _, _)
Renumber_mut(defs, n, new_id) ==
    IF n > Len(defs) THEN defs
    ELSE IF IsRemoved(defs[n])
         THEN Renumber_mut([defs EXCEPT ![n].id = 0 - 1], n + 1, new_id + 1)
         ELSE Renumber_mut([defs EXCEPT ![n].id = new_id], n + 1, new_id + 1)

\* the loop over object_defs from position n on, new_id the next free id
RECURSIVE Renumber(_, _, _)
Renumber(defs, n, new_id) ==
    IF n > Len(defs) THEN defs
    ELSE IF IsRemoved(defs[n])
         THEN Renumber([defs EXCEPT ![n].id = 0 - 1], n + 1, new_id)
         ELSE Renumber([defs EXCEPT ![n].id = new_id], n + 1, new_id + 1)

\* faulty variant: "changed = True" on both branches of the loop / no early return
Changed_mut(dsf) ==
    IF variant = "xp12" THEN Len(dsf.object_defs) > 0 ELSE TRUE

\* the return value of remove_sam
Changed(dsf) ==
    IF variant = "xp12"
    THEN \E n \in 1..Len(dsf.object_defs) : IsRemoved(dsf.object_defs[n])
    ELSE ~(dsf.n_jw = 0 /\ dsf.n_docks = 0)

remove_sam(dsf) ==
    IF variant = "xp12"
    THEN [dsf EXCEPT !.object_defs = Renumber(@, 1, 0)]
    ELSE IF ~Changed(dsf) THEN dsf
    ELSE LET defs == Renumber(dsf.object_defs, 1, 0)
         IN  [dsf EXCEPT
                 !.object_defs = defs,
                 !.object_refs = [r \in 1..Len(dsf.object_refs) |->
                     [dsf.object_refs[r] EXCEPT !.id = defs[@ + 1].id]]]

(***************************************************************************)
(* Rotundas: Dsf.add_rotundas                                              *)
(***************************************************************************)
\* faulty variant: the index is the number of polygon definitions after the
\* new one is appended
Polygon_mut(id, name, first, second) ==
    [id |-> id + 1, jw |-> name, first |-> first, second |-> second]

\* the records BEGIN_POLYGON id .. END_POLYGON with two points
Polygon(id, name, first, second) ==
    [id |-> id, jw |-> name, first |-> first, second |-> second]

\* xp12: one polygon per matched jetway, in the order of sam.jetways
RECURSIVE rotundas_xp12(_, _)
rotundas_xp12(dsf, n) ==
    IF n > Len(jetways) THEN <<>>
    ELSE IF jetways[n].obj_ref = NoRef THEN rotundas_xp12(dsf, n + 1)
    ELSE LET o_r == dsf_list[jetways[n].obj_ref[1]].object_refs[jetways[n].obj_ref[2]]
             p1 == pos_plus_vec(o_r.pos, 0 - jw_rotunda_length, o_r.hdg)
         IN  <<Polygon(dsf.jw_facade_id, jetways[n].name, p1, o_r.pos)>>
                 \o rotundas_xp12(dsf, n + 1)

\* native: one polygon per jetway; st = [jws, polys, crash]; a jetway without
\* the attribute obj_hdg raises AttributeError
RECURSIVE rotundas_native(_, _, _)
rotundas_native(st, id, n) ==
    IF n > Len(st.jws) \/ st.crash THEN st
    ELSE IF st.jws[n].obj_hdg = Unset THEN [st EXCEPT !.crash = TRUE]
    ELSE LET jw == st.jws[n]
             p1 == pos_plus_vec(jw.pos, native_rotunda_len, jw.obj_hdg)
         IN  rotundas_native(
                 [jws |-> [st.jws EXCEPT ![n].pos = p1],
                  polys |-> Append(st.polys, Polygon(id, jw.name, jw.pos, p1)),
                  crash |-> FALSE], id, n + 1)

\* add_rotundas: [dsf, jws, crash]
add_rotundas(dsf) ==
    IF variant = "xp12"
    THEN [dsf |-> [dsf EXCEPT !.polygon_defs = @ + 1,
                              !.rotundas = @ \o rotundas_xp12(dsf, 1)],
          jws |-> jetways, crash |-> FALSE]
    ELSE LET st == rotundas_native([jws |-> jetways, polys |-> <<>>, crash |-> FALSE],
                                   dsf.polygon_defs, 1)
         IN  [dsf |-> [dsf EXCEPT !.polygon_defs = @ + 1,
                                  !.rotundas = @ \o st.polys],
              jws |-> st.jws, crash |-> st.crash]

(***************************************************************************)
(* Writing a tile: Dsf.write, __repr__ of ObjectDef and ObjectRef          *)
(***************************************************************************)
\* ObjectDef.__repr__
ObjectDef_repr(o) ==
    [deleted |-> o.id < 0, name |-> o.name]

\* ObjectRef.__repr__; xp12 prints the id of its ObjectDef, native its own id
\* and nothing but "# deleted" for a deleted reference
ObjectRef_repr(dsf, o) ==
    LET id == IF variant = "xp12" THEN dsf.object_defs[o.obj].id ELSE o.id
    IN  IF id < 0 /\ variant = "native"
        THEN [deleted |-> TRUE, type |-> "", id |-> 0 - 1, pos |-> P0, hdg |-> 0,
              params |-> Join(<<>>)]
        ELSE [deleted |-> id < 0, type |-> o.type, id |-> id, pos |-> o.pos,
              hdg |-> o.hdg, params |-> o.params]

\* a line that native passes through verbatim
Rest_repr(l) ==
    [deleted |-> FALSE, type |-> l.type, id |-> l.id, pos |-> l.pos, hdg |-> l.hdg,
     params |-> Params(l)]

NotWritten ==
    [written |-> FALSE, encoded |-> FALSE, object_defs |-> <<>>, object_refs |-> <<>>,
     rest |-> <<>>, polygon_defs |-> 0, polygon_refs |-> <<>>, polygons |-> <<>>]

\* the text that write puts into the .txt file
Text(dsf) ==
    [written |-> TRUE, encoded |-> FALSE,
     object_defs |-> [n \in 1..Len(dsf.object_defs) |->
                         ObjectDef_repr(dsf.object_defs[n])],
     object_refs |-> [r \in 1..Len(dsf.object_refs) |->
                         ObjectRef_repr(dsf, dsf.object_refs[r])],
     rest |-> [r \in 1..Len(dsf.rest) |-> Rest_repr(dsf.rest[r])],
     polygon_defs |-> dsf.polygon_defs,
     polygon_refs |-> dsf.polygon_refs,
     polygons |-> dsf.rotundas]

(***************************************************************************)
(* main: the loop "Removing sam jetways and docks from dsf and creating    *)
(* rotundas", tile i                                                       *)
(***************************************************************************)
NextTile ==
    /\ i' = IF i >= n_files THEN 1 ELSE i + 1
    /\ pc' = IF i >= n_files THEN "apt" ELSE "rewrite"
    /\ exit_code' = exit_code

rewrite ==
    /\ pc = "rewrite" /\ i <= n_files
    /\ LET dsf == remove_sam(dsf_list[i])
           ar == add_rotundas(dsf)
       IN  IF ~Changed(dsf_list[i])
           THEN /\ dsf_list' = [dsf_list EXCEPT ![i] = dsf]
                /\ NextTile
                /\ UNCHANGED <<jetways, dsf_out>>
           ELSE IF ar.crash
           THEN /\ dsf_list' = [dsf_list EXCEPT ![i] = dsf]
                /\ pc' = "exit" /\ exit_code' = 1
                /\ UNCHANGED <<jetways, dsf_out, i>>
           ELSE /\ dsf_list' = [dsf_list EXCEPT ![i] = ar.dsf]
                /\ jetways' = ar.jws
                /\ \E ok \in BOOLEAN :
                      /\ dsf_out' = [dsf_out EXCEPT
                                        ![i] = [Text(ar.dsf) EXCEPT !.encoded = ok]]
                      /\ IF ok THEN NextTile
                         ELSE ToolFails /\ UNCHANGED i
    /\ UNCHANGED <<variant, remove_sam_lib_objects, n_files, sam_xml, docks, dsf_txt, k,
                   n_dsf_jw, n_dsf_docks, apt_lines, apt_out, use_autodgs>>

(***************************************************************************)
(* main: "Creating XP12 jetways in apt.dat".  A line of apt.dat is the     *)
(* sequence of its characters.                                             *)
(***************************************************************************)
AptLineTexts == {<<"1">>, <<"9", "9">>, <<"9", "9", "0">>}
AptFiles == SeqsUpTo(AptLineTexts, 2)

\* l.find("99") == 0
StartsWith99(l) == Len(l) >= 2 /\ l[1] = "9" /\ l[2] = "9"

\* an output line: a copied line, the comment line or the 1500 line of a jetway
AptLine(kind, text, jw, lc) ==
    [kind |-> kind, text |-> text,
     jw |-> IF kind = "copy" THEN 0 ELSE jw.name,
     pos |-> IF kind = "1500" THEN jw.pos ELSE P0,
     jw_hdg |-> IF kind = "1500" THEN normalize_hdg(jw.jw_hdg) ELSE 0,
     lcode |-> IF kind = "1500" THEN lc ELSE 0,
     length |-> IF kind = "1500" THEN jw.length ELSE 0,
     cab_hdg |-> IF kind = "1500" THEN normalize_hdg(jw.jw_hdg + jw.cab_hdg) ELSE 0]

\* SAM_jw.apt_1500: xp12 returns a comment line and the record, native the
\* record with the length code it computes here
apt_1500(jw) ==
    IF variant = "xp12"
    THEN <<AptLine("comment", <<>>, jw, 0), AptLine("1500", <<>>, jw, jw.lcode)>>
    ELSE <<AptLine("1500", <<>>, jw, lcode_of(jw.length))>>

\* native apt_1500 calls sys.exit(2) for a jetway without length code
apt_1500_exits(jw) == variant = "native" /\ lcode_of(jw.length) < 0

\* faulty variant: the test "not jw.obj_ref is None" is missing
Emitted_mut(jw) == variant = "xp12" => jw.lcode >= 0

\* the jetways that get a record
Emitted(jw) == variant = "xp12" => (jw.obj_ref # NoRef /\ jw.lcode >= 0)

\* the loop "for jw in sam.jetways" from jetway n on; st = [out, exit]
RECURSIVE apt_jetways(_, _)
apt_jetways(st, n) ==
    IF n > Len(jetways) \/ st.exit THEN st
    ELSE IF ~Emitted(jetways[n]) THEN apt_jetways(st, n + 1)
    ELSE IF apt_1500_exits(jetways[n]) THEN [st EXCEPT !.exit = TRUE]
    ELSE apt_jetways([st EXCEPT !.out = @ \o apt_1500(jetways[n])], n + 1)

\* the loop "for l in apt_lines" from line n on
RECURSIVE apt_copy(_, _, _)
apt_copy(lines, st, n) ==
    IF n > Len(lines) \/ st.exit THEN st
    ELSE LET s1 == IF StartsWith99(lines[n]) THEN apt_jetways(st, 1) ELSE st
         IN  IF s1.exit THEN s1
             ELSE apt_copy(lines,
                           [s1 EXCEPT !.out = Append(@, AptLine("copy", lines[n], 0, 0))],
                           n + 1)

apt_inject ==
    /\ pc = "apt"
    /\ \E lines \in AptFiles :
          LET st == apt_copy(lines, [out |-> <<>>, exit |-> FALSE], 1)
          IN  /\ apt_lines' = lines
              /\ apt_out' = st.out
              /\ pc' = IF st.exit THEN "exit" ELSE "marker"
              /\ exit_code' = IF st.exit THEN 2 ELSE exit_code
    /\ UNCHANGED <<variant, remove_sam_lib_objects, n_files, sam_xml, jetways, docks,
                   dsf_txt, dsf_list, i, k, n_dsf_jw, n_dsf_docks, dsf_out,
                   use_autodgs>>

\* main: open("Earth nav data/use_autodgs", "w"); log.info('done!')
create_marker ==
    /\ pc = "marker"
    /\ use_autodgs' = TRUE
    /\ pc' = "done"
    /\ UNCHANGED <<variant, remove_sam_lib_objects, n_files, sam_xml, jetways, docks,
                   dsf_txt, dsf_list, i, k, n_dsf_jw, n_dsf_docks, dsf_out, apt_lines,
                   apt_out, exit_code>>

\* the state when main starts, with a number of .dsf files out of NFiles
InitWith(NFiles) ==
    /\ variant \in Variants
    /\ remove_sam_lib_objects \in (IF variant = "xp12" THEN BOOLEAN ELSE {FALSE})
    /\ n_files \in NFiles
    /\ pc = "sam"
    /\ sam_xml = <<>>
    /\ jetways = <<>>
    /\ docks = <<>>
    /\ dsf_txt = <<>>
    /\ dsf_list = <<>>
    /\ i = 1
    /\ k = 1
    /\ n_dsf_jw = 0
    /\ n_dsf_docks = 0
    /\ dsf_out = [t \in 1..n_files |-> NotWritten]
    /\ apt_lines = <<>>
    /\ apt_out = <<>>
    /\ use_autodgs = FALSE
    /\ exit_code = 0

\* a run over up to two tiles
Init == InitWith(0..2)

Next ==
    \/ SAM_init(SamXmls)
    \/ Dsf_init(LeanTiles)
    \/ filter_sam_jw
    \/ filter_sam_docks
    \/ filter_sam_native
    \/ filter_none
    \/ count_check
    \/ rewrite
    \/ apt_inject
    \/ create_marker

Spec == Init /\ [][Next]_vars

\* a run over a single tile, up to the rewriting of the tile
InitTile == InitWith({1})

NextTile1 ==
    \/ SAM_init(TileSamXmls)
    \/ Dsf_init(RichTiles)
    \/ filter_sam_jw
    \/ filter_sam_docks
    \/ filter_sam_native
    \/ count_check
    \/ rewrite

SpecTile == InitTile /\ [][NextTile1]_vars

\* a run over a single tile with height-qualified records and polygons
NextText ==
    \/ SAM_init(TextSamXmls)
    \/ Dsf_init(TextTiles)
    \/ filter_sam_jw
    \/ filter_sam_docks
    \/ filter_sam_native
    \/ count_check
    \/ rewrite

SpecText == InitTile /\ [][NextText]_vars

\* the loading of a sam.xml with one jetway
NextLength == SAM_init(LengthSamXmls)

SpecLength == Init /\ [][NextLength]_vars

(***************************************************************************)
(* Properties                                                              *)
(***************************************************************************)
\* remove_sam has acted on tile t
RemoveDone(t) ==
    \/ pc = "rewrite" /\ i > t
    \/ pc \in {"apt", "marker", "done"}
    \/ dsf_out[t].written

\* filter_sam has acted on tile t
FilterDone(t) ==
    \/ pc = "filter" /\ i > t
    \/ pc \in {"check", "rewrite", "apt", "marker", "done"}
    \/ dsf_out[t].written

\* the definition n of tile t is one that remove_sam has to delete
ToDelete(t, n) ==
    LET o == dsf_list[t].object_defs[n]
    IN  \/ o.is_jetway
        \/ o.is_dock
        \/ remove_sam_lib_objects /\ IsSamLibName(o.name)

\* C1: after remove_sam the surviving definitions of a tile carry the ids
\* 0..k-1, each once and in their original order, and every deleted definition
\* carries -1.
C1_RenumberingBijection ==
    \A t \in 1..Len(dsf_list) :
        RemoveDone(t) =>
            LET defs == dsf_list[t].object_defs
                surv == {n \in 1..Len(defs) : ~ToDelete(t, n)}
            IN  /\ \A n \in 1..Len(defs) : ToDelete(t, n) => defs[n].id = 0 - 1
                /\ {defs[n].id : n \in surv} = 0..(Cardinality(surv) - 1)
                /\ \A n, m \in surv : n < m => defs[n].id < defs[m].id

\* C1 witness: a rewritten tile whose first definition is deleted and whose
\* second definition survives with the id 0
C1_Witness ==
    \E t \in 1..Len(dsf_list) :
        /\ dsf_out[t].written
        /\ Len(dsf_list[t].object_defs) >= 2
        /\ dsf_list[t].object_defs[1].id = 0 - 1
        /\ dsf_list[t].object_defs[2].id = 0

\* the line written for the reference line n of the decoded text of tile t
OutRef(t, n) ==
    LET ls == dsf_txt[t].refs
        same == {m \in 1..n : IsParsedRef(ls[m]) = IsParsedRef(ls[n])}
    IN  IF IsParsedRef(ls[n]) THEN dsf_out[t].object_refs[Cardinality(same)]
        ELSE dsf_out[t].rest[Cardinality(same)]

\* C2: in a rewritten tile every object reference is written either as a
\* "# deleted" line, exactly when its definition was deleted, or with the new
\* id of the definition it pointed to in the decoded text; no reference leaves
\* the in-memory sequence.
C2_ReferenceIntegrity ==
    \A t \in 1..Len(dsf_list) :
        dsf_out[t].written =>
            /\ Len(dsf_list[t].object_refs) + Len(dsf_list[t].rest) = Len(dsf_txt[t].refs)
            /\ \A n \in 1..Len(dsf_txt[t].refs) :
                  LET d == dsf_list[t].object_defs[dsf_txt[t].refs[n].id + 1]
                      o == OutRef(t, n)
                  IN  IF d.id < 0 THEN o.deleted /\ o.id = 0 - 1
                      ELSE ~o.deleted /\ o.id = d.id

\* no definition of tile t carries a jetway or dock flag
NoFlags(t) ==
    \A n \in 1..Len(dsf_list[t].object_defs) :
        ~dsf_list[t].object_defs[n].is_jetway /\ ~dsf_list[t].object_defs[n].is_dock

\* tile t was left alone: no add_rotundas, no write
Untouched(t) ==
    /\ dsf_out[t] = NotWritten
    /\ dsf_list[t].rotundas = <<>>
    /\ dsf_list[t].polygon_defs = dsf_txt[t].npoly

\* C3 as stated: a tile without jetway or dock flag is not rewritten.
C3_Original ==
    \A t \in 1..Len(dsf_list) : (RemoveDone(t) /\ NoFlags(t)) => Untouched(t)

\* C3 amended: a tile without jetway or dock flag and, when library objects
\* are to be removed, without a definition of the SAM library, is not rewritten.
C3_NoOpTile ==
    \A t \in 1..Len(dsf_list) :
        (RemoveDone(t) /\ \A n \in 1..Len(dsf_list[t].object_defs) : ~ToDelete(t, n))
            => Untouched(t)

\* C3 witness: remove_sam has passed a tile with definitions and references and
\* nothing to delete, while the SAM definitions are not empty
C3_Witness ==
    \E t \in 1..Len(dsf_list) :
        /\ RemoveDone(t) /\ pc # "exit"
        /\ Len(dsf_list[t].object_refs) >= 1
        /\ Len(jetways) >= 1
        /\ \A n \in 1..Len(dsf_list[t].object_defs) : ~ToDelete(t, n)
        /\ dsf_out[t] = NotWritten

\* the step of filter_sam (xp12) for the jetway k on tile i
JwStep ==
    /\ pc = "filter" /\ variant = "xp12"
    /\ i <= n_files /\ k <= Len(jetways)
    /\ k' = k + 1

\* the references of tile t within the match radius of the jetway j
InRadius(t, j) ==
    {r \in 1..Len(dsf_list[t].object_refs) :
        distance(jetways[j].pos, dsf_list[t].object_refs[r].pos)
            < jw_match_radius * jw_match_radius}

\* those whose definition carries the plugin marker
PluginMarked(t, j) ==
    {r \in InRadius(t, j) :
        ObjFileHasSamDataref(dsf_list[t].object_defs[dsf_list[t].object_refs[r].obj].name)}

\* C4: when a jetway has a plugin-marked candidate in the tile, filter_sam
\* links exactly one plugin-marked candidate to it, flags the definition of
\* that candidate, counts one jetway, and leaves every other reference and
\* every other definition's jetway flag as they were.
C4_PluginMarkedMatch ==
    [][(JwStep /\ PluginMarked(i, k) # {}) =>
          \E c \in PluginMarked(i, k) :
              LET old == dsf_list[i]
                  new == dsf_list'[i]
              IN  /\ new.object_refs[c].sam_jw = k
                  /\ jetways'[k].obj_ref = <<i, c>>
                  /\ new.object_defs[old.object_refs[c].obj].is_jetway
                  /\ new.n_jw = old.n_jw + 1
                  /\ \A r \in 1..Len(old.object_refs) :
                        r # c => new.object_refs[r] = old.object_refs[r]
                  /\ \A n \in 1..Len(old.object_defs) :
                        n # old.object_refs[c].obj =>
                            new.object_defs[n].is_jetway = old.object_defs[n].is_jetway
      ]_vars

\* C4 witness: the step has run for a jetway with two candidates of different
\* definitions in the tile, the second of them plugin-marked, and only that
\* one is linked
C4_Witness ==
    /\ pc = "filter" /\ variant = "xp12" /\ k = 2 /\ i = 1
    /\ InRadius(1, 1) = {1, 2}
    /\ PluginMarked(1, 1) = {2}
    /\ dsf_list[1].object_refs[1].obj # dsf_list[1].object_refs[2].obj
    /\ dsf_list[1].object_refs[1].sam_jw = NoJw
    /\ dsf_list[1].object_refs[2].sam_jw = 1
    /\ dsf_list[1].n_jw = 1

\* C5: when a jetway has candidates in the tile and none is plugin-marked,
\* filter_sam links every candidate to it, flags the definition of every
\* candidate and counts one jetway per candidate.
C5_FallbackMatch ==
    [][(JwStep /\ PluginMarked(i, k) = {}) =>
          LET old == dsf_list[i]
              new == dsf_list'[i]
          IN  /\ \A c \in InRadius(i, k) :
                    /\ new.object_refs[c].sam_jw = k
                    /\ new.object_defs[old.object_refs[c].obj].is_jetway
              /\ new.n_jw = old.n_jw + Cardinality(InRadius(i, k))
      ]_vars

\* the reference r of tile t is within 1 m of a dock
NearDock(t, r) ==
    \E d \in 1..Len(docks) :
        distance(docks[d].pos, dsf_list[t].object_refs[r].pos) < 100 * 100

\* C6: after filter_sam a reference is flagged as dock iff it is less than
\* 1 m from a dock, a definition iff one of its references is, and n_docks
\* counts the flagged references.
C6_DockMatch ==
    \A t \in 1..Len(dsf_list) :
        FilterDone(t) =>
            LET dsf == dsf_list[t]
                hit == {r \in 1..Len(dsf.object_refs) : NearDock(t, r)}
            IN  /\ \A r \in 1..Len(dsf.object_refs) :
                      dsf.object_refs[r].is_dock <=> r \in hit
                /\ \A n \in 1..Len(dsf.object_defs) :
                      dsf.object_defs[n].is_dock <=>
                          \E r \in hit : dsf.object_refs[r].obj = n
                /\ dsf.n_docks = Cardinality(hit)

\* apt.dat has been rewritten by sam_2_xp12.py
AptDone == variant = "xp12" /\ pc \in {"marker", "done"}

\* the jetways that are matched and have a length code, in the order of sam.xml
Matched == {j \in 1..Len(jetways) : jetways[j].obj_ref # NoRef /\ jetways[j].lcode >= 0}
NthMatched(e) == CHOOSE j \in Matched : Cardinality({m \in Matched : m <= j}) = e

Begins99(l) == Len(l) >= 2 /\ SubSeq(l, 1, 2) = <<"9", "9">>
FirstTokenIs99(l) ==
    \/ l = <<"9", "9">>
    \/ Len(l) > 2 /\ SubSeq(l, 1, 3) = <<"9", "9", " ">>

\* the copies of the original lines, in the order of the output
Copies == SelectSeq(apt_out, LAMBDA o : o.kind = "copy")

\* C7 as stated: the output is the original lines plus 1500 records only, each
\* directly before a line whose first token is "99", and before such a line
\* exactly one record for every matched jetway and none for any other.
C7_Original ==
    AptDone =>
        /\ [n \in 1..Len(Copies) |-> Copies[n].text] = apt_lines
        /\ \A p \in 1..Len(apt_out) :
              apt_out[p].kind # "copy" =>
                  /\ apt_out[p].kind = "1500"
                  /\ \E q \in (p + 1)..Len(apt_out) :
                        /\ apt_out[q].kind = "copy"
                        /\ FirstTokenIs99(apt_out[q].text)
                        /\ \A r \in (p + 1)..(q - 1) : apt_out[r].kind = "1500"
        /\ \A q \in 1..Len(apt_out) :
              (apt_out[q].kind = "copy" /\ FirstTokenIs99(apt_out[q].text)) =>
                  \A j \in 1..Len(jetways) :
                      Cardinality({p \in 1..(q - 1) :
                                      /\ apt_out[p].kind = "1500"
                                      /\ apt_out[p].jw = jetways[j].name
                                      /\ \A r \in p..(q - 1) : apt_out[r].kind # "copy"})
                          = IF j \in Matched THEN 1 ELSE 0

\* C7 amended: the output is the original lines, unchanged and in order, and
\* directly before every line that begins with the characters "99" one comment
\* line followed by one 1500 record for every matched jetway with a length
\* code, in the order of sam.xml; nothing else is added.
C7_AptInjection ==
    AptDone =>
        LET B == Cardinality(Matched)
            N99(n) == Cardinality({m \in 1..n : Begins99(apt_lines[m])})
            off(n) == n + 2 * B * N99(n)
        IN  /\ Len(apt_out) = Len(apt_lines) + 2 * B * N99(Len(apt_lines))
            /\ \A n \in 1..Len(apt_lines) :
                  /\ apt_out[off(n)].kind = "copy"
                  /\ apt_out[off(n)].text = apt_lines[n]
                  /\ Begins99(apt_lines[n]) =>
                        \A e \in 1..B :
                            LET jw == jetways[NthMatched(e)]
                                c == apt_out[off(n) - 2 * B + 2 * (e - 1)]
                                r == apt_out[off(n) - 2 * B + 2 * (e - 1) + 1]
                            IN  /\ c.kind = "comment" /\ c.jw = jw.name
                                /\ r.kind = "1500" /\ r.jw = jw.name
                                /\ r.lcode = jw.lcode /\ r.pos = jw.pos

\* C7 witness: apt.dat with a line before the "99" line was rewritten for a
\* matched and an unmatched jetway
C7_Witness ==
    /\ AptDone /\ pc = "done"
    /\ Len(jetways) = 2 /\ Cardinality(Matched) = 1
    /\ apt_lines = <<(<<"1">>), (<<"9", "9">>)>>
    /\ Len(apt_out) = 4

\* the counts of main differ
Mismatch == n_dsf_jw # Len(jetways) \/ n_dsf_docks # Len(docks)

\* C8: when the counts differ after the matching of all tiles, the run ends
\* with an error and nothing is written: no tile, no apt.dat, no marker file.
C8_CountCheck ==
    (pc \notin {"sam", "parse", "filter"} /\ Mismatch) =>
        /\ pc \in {"check", "exit"}
        /\ \A t \in 1..n_files : ~dsf_out[t].written
        /\ apt_out = <<>>
        /\ ~use_autodgs

\* all tiles are matched (xp12)
MatchingDone == variant = "xp12" /\ pc \in {"check", "rewrite", "apt", "marker", "done"}

\* the tiles that hold an object within the match radius of the jetway j
MatchingTiles(j) ==
    {t \in 1..Len(dsf_txt) :
        \E n \in 1..Len(dsf_txt[t].refs) :
            distance(jetways[j].pos, dsf_txt[t].refs[n].pos)
                < jw_match_radius * jw_match_radius}

\* C9 as stated: the link of a jetway refers to the first tile that matched it.
C9_Original ==
    MatchingDone =>
        \A j \in 1..Len(jetways) :
            MatchingTiles(j) # {} => jetways[j].obj_ref[1] = Min(MatchingTiles(j))

\* C9 amended: the link of a jetway refers to an object, within the match
\* radius, of the last tile processed that matched it (a later match
\* overwrites the link); a jetway no tile matched has no link.
C9_LastMatchWins ==
    MatchingDone =>
        \A j \in 1..Len(jetways) :
            IF MatchingTiles(j) = {} THEN jetways[j].obj_ref = NoRef
            ELSE /\ jetways[j].obj_ref # NoRef
                 /\ jetways[j].obj_ref[1] = Max(MatchingTiles(j))
                 /\ jetways[j].obj_ref[2] \in InRadius(jetways[j].obj_ref[1], j)

\* C9 witness: both tiles hold an object within the radius of the first
\* jetway, and the link refers to the second tile
C9_Witness ==
    /\ MatchingDone
    /\ Len(jetways) >= 1
    /\ MatchingTiles(1) = {1, 2}
    /\ jetways[1].obj_ref[1] = 2

\* the length codes whose range (decimetres, inclusive) contains the length
Codes(length) ==
    {c \in 0..3 : length >= 110 + 30 * c /\ length <= <<230, 290, 380, 470>>[c + 1]}

\* sam.xml is loaded by sam_2_xp12.py
Loaded == variant = "xp12" /\ pc # "sam"

\* C10 as stated: the first range, in the order 0, 1, 2, 3, that contains the
\* length gives the code; a jetway whose length is in no range has the code -1
\* (and is not kept).
C10_Original ==
    Loaded =>
        /\ \A j \in 1..Len(jetways) : jetways[j].lcode = Min(Codes(jetways[j].length))
        /\ \A n \in 1..Len(sam_xml) :
              (Codes(sam_xml[n].cabinPos) = {}) <=>
                  (\A j \in 1..Len(jetways) : jetways[j].name # n)

\* C10 amended: the last range, in the order 0, 1, 2, 3, that contains the
\* length gives the code (the highest code wins); a length in no range
\* (below 11 m or above 47 m) gives -1, and such a jetway is not kept.
C10_LengthCode ==
    Loaded =>
        /\ \A j \in 1..Len(jetways) : jetways[j].lcode = Max(Codes(jetways[j].length))
        /\ \A n \in 1..Len(sam_xml) :
              (Codes(sam_xml[n].cabinPos) = {}) <=>
                  (\A j \in 1..Len(jetways) : jetways[j].name # n)
        /\ \A n \in 1..Len(sam_xml) :
              (sam_xml[n].cabinPos < 110 \/ sam_xml[n].cabinPos > 470)
                  <=> Codes(sam_xml[n].cabinPos) = {}

\* C10 witness: a jetway of 20 m, a length that all four ranges contain, is
\* loaded with the code 3
C10_Witness ==
    /\ Loaded
    /\ Len(jetways) = 1
    /\ jetways[1].length = 200
    /\ Codes(200) = {0, 1, 2, 3}
    /\ jetways[1].lcode = 3

\* text2dsf failed on the text written for tile t
EncodeFailed(t) == dsf_out[t].written /\ ~dsf_out[t].encoded

\* dsf2text failed before all tiles were decoded
DecodeFailed == pc = "exit" /\ Len(dsf_list) < n_files

\* nothing of tile t was processed by the rewrite loop
NotProcessed(t) ==
    /\ dsf_out[t] = NotWritten
    /\ \A n \in 1..Len(dsf_list[t].object_defs) : dsf_list[t].object_defs[n].id = n - 1
    /\ dsf_list[t].rotundas = <<>>

\* C11: the marker file exists only when the run is complete, every changed
\* tile is written and encoded and apt.dat is rewritten; when the tool fails on
\* a tile, the run has ended with the exit code 2, no later tile is processed,
\* apt.dat is not rewritten and the marker file does not exist.
C11_CompletionMarker ==
    /\ use_autodgs =>
          /\ pc = "done" /\ exit_code = 0
          /\ Len(dsf_list) = n_files
          /\ \A t \in 1..n_files :
                /\ Changed(dsf_list[t]) <=> dsf_out[t].written
                /\ dsf_out[t].written => dsf_out[t].encoded
          /\ [n \in 1..Len(Copies) |-> Copies[n].text] = apt_lines
    /\ \A t \in 1..n_files :
          EncodeFailed(t) =>
              /\ pc = "exit" /\ exit_code = 2
              /\ \A u \in (t + 1)..n_files : NotProcessed(u)
              /\ apt_lines = <<>> /\ apt_out = <<>>
              /\ ~use_autodgs
    /\ DecodeFailed =>
          /\ exit_code = 2
          /\ \A t \in 1..n_files : dsf_out[t] = NotWritten
          /\ apt_lines = <<>> /\ apt_out = <<>>
          /\ ~use_autodgs

\* C11 witness: the tool failed on the first of two tiles, the second tile has
\* objects to remove and is not processed
C11_Witness ==
    /\ n_files = 2 /\ Len(dsf_list) = 2
    /\ EncodeFailed(1)
    /\ Changed(dsf_list[2])
    /\ NotProcessed(2)
    /\ pc = "exit"

\* the links of the SAM definitions to the tile objects: obj_ref (xp12), the
\* heading of the matched object (native)
Links == [j \in 1..Len(jetways) |-> <<jetways[j].obj_ref, jetways[j].obj_hdg>>]

\* the SAM definitions with the positions of sam.xml
OrigJetways ==
    [j \in 1..Len(jetways) |-> [jetways[j] EXCEPT !.pos = sam_xml[jetways[j].name].pos]]

\* filter_sam has left its marks on tile t: every jetway with a candidate in
\* the tile has linked one (xp12), every object that matches a jetway is
\* flagged (native)
Filtered(t) ==
    IF variant = "xp12"
    THEN \A j \in 1..Len(jetways) :
             Candidates(dsf_list[t], jetways[j]) # {} =>
                 \E r \in Candidates(dsf_list[t], jetways[j]) :
                     dsf_list[t].object_refs[r].sam_jw # NoJw
    ELSE \A r \in 1..Len(dsf_list[t].object_refs) :
             match_jetways(OrigJetways, dsf_list[t].object_refs[r]) > 0 =>
                 dsf_list[t].object_refs[r].is_jetway

\* C12: every step of the rewrite loop (remove_sam, add_rotundas, write) and
\* of the apt.dat injection starts in a state where filter_sam has run on all
\* tiles, and the links of the SAM definitions change in the matching loop
\* only.
C12_HardSequencing ==
    [][/\ (pc \in {"rewrite", "apt"} \/ dsf_out' # dsf_out \/ apt_out' # apt_out) =>
             /\ Len(dsf_list) = n_files
             /\ \A t \in 1..n_files : Filtered(t)
       /\ (pc # "sam" /\ Links' # Links) => pc = "filter"
      ]_vars

\* C12 witness: the rewrite loop is at the second tile, the first tile is
\* written, and a jetway is linked to an object of the second tile
C12_Witness ==
    /\ pc = "rewrite" /\ n_files = 2 /\ i = 2
    /\ dsf_out[1].written
    /\ \E j \in 1..Len(jetways) :
          \/ variant = "xp12" /\ jetways[j].obj_ref # NoRef /\ jetways[j].obj_ref[1] = 2
          \/ /\ variant = "native" /\ jetways[j].obj_hdg # Unset
             /\ \E r \in 1..Len(dsf_list[2].object_refs) :
                   match_jetways(OrigJetways, dsf_list[2].object_refs[r]) = j

\* the SAM definition j has a matched reference
HasRef(j) ==
    IF variant = "xp12" THEN jetways[j].obj_ref # NoRef ELSE jetways[j].obj_hdg # Unset

Linked == {j \in 1..Len(jetways) : HasRef(j)}
NthLinked(e) == CHOOSE j \in Linked : Cardinality({m \in Linked : m <= j}) = e

\* the matched references of the SAM definition j: the object obj_ref points
\* to (xp12), the objects that match_jetways accepted for j (native)
MatchedRefs(j) ==
    IF variant = "xp12"
    THEN {dsf_list[jetways[j].obj_ref[1]].object_refs[jetways[j].obj_ref[2]]}
    ELSE UNION {{dsf_list[t].object_refs[r] : r \in {q \in 1..Len(dsf_list[t].object_refs) :
                    match_jetways(OrigJetways, dsf_list[t].object_refs[q]) = j}} :
                t \in 1..Len(dsf_list)}

\* the polygon p has one end at the position of the reference o and the other
\* end one rotunda length away along the heading of o
AlongRef(p, o) ==
    \/ /\ p.first = o.pos
       /\ p.second = pos_plus_vec(o.pos, native_rotunda_len, o.hdg)
    \/ /\ p.second = o.pos
       /\ p.first = pos_plus_vec(o.pos, 0 - jw_rotunda_length, o.hdg)

\* C13: add_rotundas appends one polygon definition and writes, in the order
\* of the SAM definitions, one polygon for every definition with a matched
\* reference, with one end at the position of that reference and directed by
\* its heading; a definition without matched reference gets no polygon and
\* never ends the run (exit code 1 is the uncaught exception).
C13_RotundaSynthesis ==
    /\ exit_code # 1
    /\ \A t \in 1..Len(dsf_list) :
          dsf_out[t].written =>
              LET ps == dsf_out[t].polygons
              IN  /\ dsf_out[t].polygon_defs = dsf_txt[t].npoly + 1
                  /\ Len(ps) = Cardinality(Linked)
                  /\ \A e \in 1..Len(ps) :
                        /\ ps[e].jw = jetways[NthLinked(e)].name
                        /\ \E o \in MatchedRefs(NthLinked(e)) : AlongRef(ps[e], o)

\* apt.dat has been rewritten by sam_2_native.py
AptDoneNative == variant = "native" /\ pc \in {"marker", "done"}

\* the tiles that the rewrite loop has written
WrittenTiles == {t \in 1..n_files : dsf_out[t].written}

\* C14: after a whole run the stored position of every matched SAM definition,
\* and with it the position of its 1500 record, is the position of sam.xml
\* displaced by exactly one rotunda length along the heading of the matched
\* object, whatever the number of tiles that were rewritten.
C14_PositionBookkeeping ==
    AptDoneNative =>
        /\ \A j \in 1..Len(jetways) :
              jetways[j].pos =
                  pos_plus_vec(sam_xml[jetways[j].name].pos, native_rotunda_len,
                               jetways[j].obj_hdg)
        /\ \A p \in 1..Len(apt_out) :
              apt_out[p].kind = "1500" =>
                  \E j \in 1..Len(jetways) :
                      /\ jetways[j].name = apt_out[p].jw
                      /\ apt_out[p].pos =
                             pos_plus_vec(sam_xml[jetways[j].name].pos, native_rotunda_len,
                                          jetways[j].obj_hdg)

\* C15: in a tile written by sam_2_xp12.py a height-qualified record that was
\* read with a negative height is written with the height zero and with the
\* longitude, latitude and heading words as read; every other record is
\* written with its parameter text exactly as read.
C15_HeightClamp ==
    \A t \in 1..Len(dsf_list) :
        (variant = "xp12" /\ dsf_out[t].written) =>
            /\ Len(dsf_out[t].object_refs) = Len(dsf_txt[t].refs)
            /\ \A n \in 1..Len(dsf_txt[t].refs) :
                  LET l == dsf_txt[t].refs[n]
                      o == dsf_out[t].object_refs[n]
                  IN  /\ o.type = l.type
                      /\ IF l.type # "OBJECT" /\ l.height < 0
                         THEN /\ Len(o.params.words) = 4
                              /\ o.params.words[3] = 0
                              /\ o.params.words[1] = l.pos.lon
                              /\ o.params.words[2] = l.pos.lat
                              /\ o.params.words[4] = l.hdg
                         ELSE o.params = Params(l)

\* C15 witness: a written tile with a live record that was read with the
\* height -0.5 m and two blanks between its words, and the record of a jetway
\* object that was read with the height 0.7 m and two blanks
C15_Witness ==
    /\ variant = "xp12" /\ dsf_out[1].written
    /\ Len(dsf_txt[1].refs) = 2
    /\ dsf_txt[1].refs[1].type = "OBJECT_AGL" /\ dsf_txt[1].refs[1].height = 0 - 5
    /\ dsf_txt[1].refs[1].gap = 2
    /\ ~dsf_out[1].object_refs[1].deleted
    /\ dsf_out[1].object_refs[1].params = [words |-> <<0, 99, 0, 0>>, gap |-> 1]
    /\ dsf_txt[1].refs[2].height = 7
    /\ dsf_out[1].object_refs[2].deleted
    /\ dsf_out[1].object_refs[2].params = [words |-> <<0, 0, 7, 90>>, gap |-> 2]

\* the rewrite loop of sam_2_xp12.py has passed all tiles
RewriteDone == variant = "xp12" /\ pc \in {"apt", "marker", "done"}

\* the polygons written for the SAM definition j: tile and place in the tile
PolygonsOf(j) ==
    {te \in UNION {{<<t, e>> : e \in 1..Len(dsf_out[t].polygons)} : t \in 1..n_files} :
        dsf_out[te[1]].polygons[te[2]].jw = jetways[j].name}

\* C16: over a whole run at most one polygon is written for a SAM definition,
\* and only into the tile that holds its matched reference.
C16_RotundaOwnTile ==
    RewriteDone =>
        \A j \in 1..Len(jetways) :
            /\ Cardinality(PolygonsOf(j)) <= 1
            /\ \A te \in PolygonsOf(j) :
                  jetways[j].obj_ref # NoRef /\ jetways[j].obj_ref[1] = te[1]

\* C17: in every written tile the polygon definition that add_rotundas
\* appended is the last of the POLYGON_DEF records, one more than the decoded
\* text has, every synthesized polygon carries its 0-based position as index,
\* and the polygons of the decoded text keep their indices.
C17_PolygonDefIndex ==
    \A t \in 1..Len(dsf_list) :
        dsf_out[t].written =>
            /\ dsf_out[t].polygon_defs = dsf_txt[t].npoly + 1
            /\ \A e \in 1..Len(dsf_out[t].polygons) :
                  /\ dsf_out[t].polygons[e].id = dsf_out[t].polygon_defs - 1
                  /\ dsf_out[t].polygons[e].id = dsf_txt[t].npoly
            /\ dsf_out[t].polygon_refs = dsf_txt[t].polys

\* C17 witness: a tile with two polygon definitions and a polygon of the
\* second one is written with a synthesized polygon of the index 2
C17_Witness ==
    /\ dsf_out[1].written
    /\ dsf_txt[1].npoly = 2 /\ dsf_txt[1].polys = <<1>>
    /\ Len(dsf_out[1].polygons) = 1
    /\ dsf_out[1].polygons[1].id = 2
    /\ dsf_out[1].polygon_refs = <<1>>

====
